---- MODULE Spec2Model ----
(***************************************************************************)
(* Model of docs/assets/benchmark_analysis.py: the session analyzer        *)
(* (analyze_session), the ground-truth adapter (load_from_json), the cost  *)
(* projector (cost_per_turn, cold_cost, project_costs), the tier property  *)
(* and the part of main that drives them.                                  *)
(*                                                                         *)
(* Numbers.  Strings are modelled by their lengths: a line is its byte     *)
(* length plus the fields the analyzer reads; a content block is the byte  *)
(* length of its json.dumps re-serialisation (which may differ from the    *)
(* bytes the block takes in the raw line) and the characters it adds.      *)
(* Money is exact: an amount is a wide integer in units of                 *)
(* 0.05 USD * 1e-6 * 1e-2 (prices are multiples of 0.05 USD per million    *)
(* tokens, the hit rate is a whole percentage, as main computes it from    *)
(* the integer --cache-rate).  Percentages with one decimal are integers   *)
(* in tenths.  Python floats are modelled by exact rationals, except       *)
(* where the rounding of doubles decides a result: the order of the two    *)
(* cost curves at a turn where their exact values tie is computed in       *)
(* binary64.  The one float the arithmetic cannot absorb, an infinite      *)
(* usage count, is kept as a flag.                                         *)
(***************************************************************************)
EXTENDS Integers, Sequences, FiniteSets, TLC

VARIABLES
    mode,         \* "standalone" | "json" | "cost": which entry point runs
    pricing,      \* main: args.model, a key of PRICING
    hit_rate,     \* main: hit rate in percent (max(0, min(100, cache_rate)))
    batch,        \* standalone: jsonl_files, a sequence of files
    idx,          \* standalone: 1-based position of the loop over jsonl_files
    pc,           \* control point
    pos,          \* analyze_session: number of lines of the file consumed
    acc,          \* analyze_session: the local running counters
    returned,     \* standalone: what analyze_session returned for each file so far
    sessions,     \* main / load_from_json: the list `sessions`
    data,         \* json: data["sessions"], the entries of the ground-truth file
    cost_args,    \* cost: the arguments of one project_costs call
    cost_result,  \* cost: the CacheCostProjection it returned
    tiers         \* write_stats: the dict classify_tiers returned

vars == <<mode, pricing, hit_rate, batch, idx, pc, pos, acc, returned,
          sessions, data, cost_args, cost_result, tiers>>

-----------------------------------------------------------------------------
(* Bounds of the model *)

\* Lines of a log besides the run of plain turns
MaxExtra == 2
\* Files in a batch of several sessions
MaxBatch == 2
\* Entries of a ground-truth file
MaxEntries == 1

-----------------------------------------------------------------------------
(* Program constants *)

SYSTEM_OVERHEAD == 20000
TIER_TOOL_HEAVY == 40
TIER_MIXED == 15
\* os.path.getsize(jsonl_path) < 100
MIN_FILE_SIZE == 100
\* msg_user + msg_assistant < 10
MIN_TURNS == 10
\* content_chars // 4
CHARS_PER_TOKEN == 4
\* tool_result_count * 35
RESULT_CREDIT == 35
\* project_costs(..., max_turns=60)
MAX_TURNS == 60
\* --min-tokens default
MIN_TOKENS == 5000

\* PRICING, cache_write and cache_read in units of 0.05 USD per million tokens
PRICING ==
    [sonnet |-> [cache_write |-> 75,  cache_read |-> 6],
     opus   |-> [cache_write |-> 125, cache_read |-> 10],
     opus4  |-> [cache_write |-> 375, cache_read |-> 30],
     haiku  |-> [cache_write |-> 25,  cache_read |-> 2]]

Models == {"sonnet", "opus", "opus4", "haiku"}

-----------------------------------------------------------------------------
(* Wide integers: value = hi * 10000 + lo, 0 <= lo < 10000, hi signed *)

WNorm(h, l) == [hi |-> h + (l \div (100 * 100)), lo |-> l % (100 * 100)]
W(n) == WNorm(0, n)
WMul(w, n) == WNorm(w.hi * n, w.lo * n)
WAdd(a, b) == WNorm(a.hi + b.hi, a.lo + b.lo)
WSub(a, b) == WNorm(a.hi - b.hi, a.lo - b.lo)
WNonNeg(w) == w.hi >= 0
WPos(w) == w.hi > 0 \/ (w.hi = 0 /\ w.lo > 0)
WLe(a, b) == WNonNeg(WSub(b, a))

\* round(num / den) for den > 0, num >= 0: Python rounds halves to even
RoundDiv(num, den) ==
    LET q == num \div den
        r == num % den
    IN  IF 2 * r < den THEN q
        ELSE IF 2 * r > den THEN q + 1
        ELSE IF q % 2 = 0 THEN q ELSE q + 1

Max(a, b) == IF a >= b THEN a ELSE b
Min(a, b) == IF a <= b THEN a ELSE b
SetMin(S) == CHOOSE x \in S : \A y \in S : x <= y

-----------------------------------------------------------------------------
(* Doubles: the binary64 arithmetic of the cost functions on non-negative
   values. A double is [m, e] with value m * 2^e, m = 0 or
   2^52 <= m < 2^53; integers of up to 112 bits are held as eight limbs of
   14 bits, lowest first *)

B == 128 * 128
NL == 8

RECURSIVE Pow2(_)
Pow2(k) == IF k = 0 THEN 1 ELSE 2 * Pow2(k - 1)

\* The one member of a singleton: Only({F(v) : v \in {x}}) is F at the value
\* of x, x evaluated once
Only(S) == CHOOSE v \in S : TRUE

\* The limbs F(0), ..., F(7)
Vec(F(_)) == <<F(0), F(1), F(2), F(3), F(4), F(5), F(6), F(7)>>
At(x, i) == IF i >= 0 /\ i < NL THEN x[i + 1] ELSE 0

\* Column sums brought back to limbs below B
RECURSIVE CarryInto(_, _)
CarryInto(c, i) == IF i = 0 THEN 0 ELSE (At(c, i - 1) + CarryInto(c, i - 1)) \div B
Normal(c) ==
    Only({LET F(i) == (At(v, i) + CarryInto(v, i)) % B IN Vec(F) : v \in {c}})

BigOf(n) == LET F(i) == IF i = 0 THEN n ELSE 0 IN Normal(Vec(F))
BigPow2(k) == LET F(i) == IF i = k \div 14 THEN Pow2(k % 14) ELSE 0 IN Vec(F)
BigAdd(x, y) == LET F(i) == At(x, i) + At(y, i) IN Normal(Vec(F))
\* x - y for x >= y
RECURSIVE Borrow(_, _, _)
Borrow(x, y, i) ==
    IF i = 0 THEN 0
    ELSE IF At(x, i - 1) - At(y, i - 1) - Borrow(x, y, i - 1) < 0 THEN 1 ELSE 0
BigSub(x, y) ==
    LET F(i) == (At(x, i) - At(y, i) - Borrow(x, y, i) + B) % B IN Vec(F)
\* x * y where one factor has at most four non-zero limbs
RECURSIVE Column(_, _, _, _)
Column(x, y, k, j) ==
    IF j > k THEN 0 ELSE At(x, j) * At(y, k - j) + Column(x, y, k, j + 1)
BigMul(x, y) == LET F(k) == Column(x, y, k, 0) IN Normal(Vec(F))
\* x * 2^k
BigShl(x, k) == Only({BigMul(p, x) : p \in {BigPow2(k)}})
\* floor(x / c) and x mod c for 0 < c < B, limb by limb from the top
RECURSIVE RemFrom(_, _, _)
RemFrom(x, c, i) ==
    IF i >= NL THEN 0 ELSE (RemFrom(x, c, i + 1) * B + At(x, i)) % c
BigDiv(x, c) ==
    LET F(i) == (RemFrom(x, c, i + 1) * B + At(x, i)) \div c IN Vec(F)
BigRem(x, c) == RemFrom(x, c, 0)
BigIsZero(x) == \A i \in 1..NL : x[i] = 0

RECURSIVE BitLen(_)
BitLen(n) == IF n = 0 THEN 0 ELSE 1 + BitLen(n \div 2)
BigBitLen(x) ==
    IF BigIsZero(x) THEN 0
    ELSE LET top == CHOOSE i \in 1..NL :
                        x[i] # 0 /\ \A j \in (i + 1)..NL : x[j] = 0
         IN  14 * (top - 1) + BitLen(x[top])
BigBit(x, k) == (At(x, k \div 14) \div Pow2(k % 14)) % 2
\* x mod 2^k is not zero
BigLowBits(x, k) ==
    \/ \E i \in 0..(NL - 1) : i < k \div 14 /\ At(x, i) # 0
    \/ At(x, k \div 14) % Pow2(k % 14) # 0
\* floor(x / 2^s)
BigShr(x, s) ==
    LET a == s \div 14
        b == s % 14
        F(i) == At(x, i + a) \div Pow2(b)
                + (At(x, i + a + 1) % Pow2(b)) * Pow2(14 - b)
    IN  Vec(F)
RECURSIVE BigGeFrom(_, _, _)
BigGeFrom(x, y, i) ==
    IF i < 0 THEN TRUE
    ELSE IF At(x, i) # At(y, i) THEN At(x, i) > At(y, i)
    ELSE BigGeFrom(x, y, i - 1)

BigOne == <<1, 0, 0, 0, 0, 0, 0, 0>>
FZero == [m |-> <<0, 0, 0, 0, 0, 0, 0, 0>>, e |-> 0]
\* n of more than 53 bits, q its top 53 bits, s the bits dropped: q rounded
\* up when the dropped part is above a half, or is a half and q is odd
RoundShifted(n, q, s, e, sticky) ==
    LET up == BigBit(n, s - 1) = 1
              /\ (sticky \/ BigLowBits(n, s - 1) \/ q[1] % 2 = 1)
    IN  Only({IF BigBitLen(q1) = 54
              THEN [m |-> BigShr(q1, 1), e |-> e + s + 1]
              ELSE [m |-> q1, e |-> e + s] :
              q1 \in {IF up THEN BigAdd(q, BigOne) ELSE q}})
RoundBits(n, len, e, sticky) ==
    IF len = 0 THEN FZero
    ELSE IF len <= 53 THEN [m |-> BigShl(n, 53 - len), e |-> e - (53 - len)]
    ELSE Only({RoundShifted(n, q, len - 53, e, sticky) :
               q \in {BigShr(n, len - 53)}})
\* The double nearest to n * 2^e (n plus a fraction when sticky), ties to
\* even
Round(n, e, sticky) ==
    Only({Only({RoundBits(v, len, e, sticky) : len \in {BigBitLen(v)}}) :
          v \in {n}})

FIsZero(a) == BigIsZero(a.m)
FOfInt(n) == Round(BigOf(n), 0, FALSE)
FMul(a, b) ==
    Only({IF FIsZero(x) \/ FIsZero(y) THEN FZero
          ELSE Round(BigMul(x.m, y.m), x.e + y.e, FALSE) :
          x \in {a}, y \in {b}})
\* a / (c * 2^k) for an odd c < B
FDiv(a, c, k) ==
    Only({IF FIsZero(x) THEN FZero
          ELSE Only({Round(BigDiv(n, c), x.e - 17 - k, BigRem(n, c) # 0) :
                     n \in {BigShl(x.m, 17)}}) :
          x \in {a}})
\* a >= b
FGe(a, b) ==
    \E x \in {a}, y \in {b} :
        IF FIsZero(y) THEN TRUE
        ELSE IF FIsZero(x) THEN FALSE
        ELSE IF x.e # y.e THEN x.e > y.e ELSE BigGeFrom(x.m, y.m, NL - 1)
\* hi + lo for hi.e >= lo.e, neither zero
AddAligned(hi, lo) ==
    IF hi.e - lo.e > 55 THEN hi
    ELSE Only({Round(BigAdd(s, lo.m), lo.e, FALSE) :
               s \in {BigShl(hi.m, hi.e - lo.e)}})
FAdd(a, b) ==
    Only({IF FIsZero(x) THEN y
          ELSE IF FIsZero(y) THEN x
          ELSE IF x.e >= y.e THEN AddAligned(x, y) ELSE AddAligned(y, x) :
          x \in {a}, y \in {b}})
\* a - b for a >= b
FSub(a, b) ==
    Only({IF FIsZero(y) \/ x.e - y.e > 55 THEN x
          ELSE Only({Round(BigSub(s, y.m), y.e, FALSE) :
                     s \in {BigShl(x.m, x.e - y.e)}}) :
          x \in {a}, y \in {b}})

\* n = OddPart(n) * 2^TwoExp(n) for n > 0
RECURSIVE OddPart(_)
OddPart(n) == IF n % 2 = 0 THEN OddPart(n \div 2) ELSE n
RECURSIVE TwoExp(_)
TwoExp(n) == IF n % 2 = 0 THEN 1 + TwoExp(n \div 2) ELSE 0
\* a / n for an integer n > 0 whose odd part is below 4 * B
FDivInt(a, n) == FDiv(a, OddPart(n), TwoExp(n))
\* round(k * a) for a double a with k * a < 2^28 and an integer k in 1..10:
\* the nearest integer to the exact value, a half going to the even one.
\* round(x) is RoundScaled(x, 1) and 10 * round(x, 1) is RoundScaled(x, 10)
RoundScaled(a, k) ==
    Only({IF FIsZero(x) THEN 0
          ELSE Only({LET floor == BigShr(n, 0 - x.e)
                         whole == floor[1] + B * floor[2]
                         up    == BigBit(n, 0 - x.e - 1) = 1
                                  /\ (BigLowBits(n, 0 - x.e - 1)
                                      \/ floor[1] % 2 = 1)
                     IN  IF up THEN whole + 1 ELSE whole :
                     n \in {BigMul(BigOf(k), x.m)}}) :
          x \in {a}})

-----------------------------------------------------------------------------
(* Cost modelling *)

\* (cached / 1e6) * cache_read + (new / 1e6) * cache_write
cost_per_turn(tokens, hit, model) ==
    LET cached == WMul(W(tokens), hit)
        new    == WMul(W(tokens), 100 - hit)
    IN  WAdd(WMul(cached, PRICING[model].cache_read),
             WMul(new, PRICING[model].cache_write))

\* Mutant: the first turn after a trim priced as a cache read
cold_cost_as_read(tokens, model) ==
    WMul(WMul(W(tokens), 100), PRICING[model].cache_read)

\* (tokens / 1e6) * cache_write
cold_cost(tokens, model) ==
    WMul(WMul(W(tokens), 100), PRICING[model].cache_write)

\* hit_rate = max(0, min(100, args.cache_rate)) / 100 as a double
fl_hit_rate(hit) == FDiv(FOfInt(hit), 25, 2)

\* A price of PRICING, held in units of 0.05, as the double of its literal
fl_price(p) == FDiv(FOfInt(p), 5, 2)

\* cost_per_turn in doubles, operation by operation; 1e6 = 15625 * 2^6
fl_cost_per_turn(tokens, hit, model) ==
    Only({LET cached == FMul(FOfInt(tokens), rate)
              new    == FMul(FOfInt(tokens), FSub(FOfInt(1), rate))
          IN  FAdd(FMul(FDiv(cached, 15625, 6),
                        fl_price(PRICING[model].cache_read)),
                   FMul(FDiv(new, 15625, 6),
                        fl_price(PRICING[model].cache_write))) :
          rate \in {fl_hit_rate(hit)}})

\* cold_cost in doubles
fl_cold_cost(tokens, model) ==
    FMul(FDiv(FOfInt(tokens), 15625, 6), fl_price(PRICING[model].cache_write))

\* The sign of one element of diff = no_trim - with_trim, as the doubles
\* give it. The exact values of the two sides are multiples of 5e-10 below
\* 2^11 and their doubles are within 2^-40 of them, so sides that differ
\* exactly compare as their exact values; sides that tie exactly compare as
\* the rounded doubles fl_no_trim and fl_with_trim
diff_sign(no_trim, with_trim, fl_no_trim, fl_with_trim) ==
    IF no_trim # with_trim
    THEN IF WLe(with_trim, no_trim) THEN 1 ELSE -1
    ELSE Only({IF ~FGe(x, y) THEN -1 ELSE IF FGe(y, x) THEN 0 ELSE 1 :
               x \in {fl_no_trim}, y \in {fl_with_trim}})

\* Mutant: diff > 0, a tie is no break-even
be_indices_strict(diff) ==
    {j \in 0..(Cardinality(DOMAIN diff) - 1) : diff[j + 1] > 0}

\* np.where(diff >= 0)[0]: the 0-based indices whose diff is not negative
be_indices_of(diff) ==
    {j \in 0..(Cardinality(DOMAIN diff) - 1) : diff[j + 1] >= 0}

\* be_indices[0] of a non-empty be_indices: its least member, sought from j up
RECURSIVE first_index(_, _)
first_index(be_indices, j) ==
    IF j \in be_indices THEN j ELSE first_index(be_indices, j + 1)

\* Mutant: the 0-based index taken for the turn
breakeven_zero_based(be_indices, max_turns) ==
    IF \E j \in 0..(max_turns - 1) : j \in be_indices
    THEN first_index(be_indices, 0) ELSE max_turns

\* int(be_indices[0]) + 1 if len(be_indices) > 0 else max_turns
breakeven_of(be_indices, max_turns) ==
    IF \E j \in 0..(max_turns - 1) : j \in be_indices
    THEN first_index(be_indices, 0) + 1 ELSE max_turns

\* The projection: no_trim and with_trim by their exact values, and diff,
\* the order of their doubles turn by turn, by its sign
project_costs(pre_tokens, post_tokens, model, hit, max_turns) ==
    LET turns          == [j \in 1..max_turns |-> j]
        pre_cost       == cost_per_turn(pre_tokens, hit, model)
        post_steady    == cost_per_turn(post_tokens, hit, model)
        post_first     == cold_cost(post_tokens, model)
        fl_pre_cost    == fl_cost_per_turn(pre_tokens, hit, model)
        fl_post_steady == fl_cost_per_turn(post_tokens, hit, model)
        fl_post_first  == fl_cold_cost(post_tokens, model)
        no_trim        == [j \in 1..max_turns |-> WMul(pre_cost, turns[j])]
        with_trim      == [j \in 1..max_turns |->
                              WAdd(post_first, WMul(post_steady, turns[j] - 1))]
        diff           == [j \in 1..max_turns |->
                              diff_sign(no_trim[j], with_trim[j],
                                        FMul(fl_pre_cost, FOfInt(turns[j])),
                                        FAdd(fl_post_first,
                                             FMul(fl_post_steady,
                                                  FOfInt(turns[j] - 1))))]
    IN  [turns |-> turns, no_trim |-> no_trim, with_trim |-> with_trim,
         diff |-> diff,
         breakeven |-> breakeven_of(be_indices_of(diff), max_turns)]

\* plot_cost_curves: savings_mask = proj.with_trim <= proj.no_trim, the turns
\* the chart shades as savings
savings_mask(proj) == [j \in 1..Len(proj.turns) |-> proj.diff[j] >= 0]

-----------------------------------------------------------------------------
(* SessionData *)

\* Mutant: the thresholds taken inclusive
tier_inclusive(tool_result_byte_pct) ==
    IF tool_result_byte_pct >= TIER_TOOL_HEAVY THEN "tool_heavy"
    ELSE IF tool_result_byte_pct >= TIER_MIXED THEN "mixed"
    ELSE "conversational"

tier(tool_result_byte_pct) ==
    IF tool_result_byte_pct > TIER_TOOL_HEAVY THEN "tool_heavy"
    ELSE IF tool_result_byte_pct > TIER_MIXED THEN "mixed"
    ELSE "conversational"

-----------------------------------------------------------------------------
(* Raw session log: lines and content blocks *)

\* One typed block of a content list.  dumped = len(json.dumps(block)) in
\* bytes, sig = len(json.dumps(block["signature"])) or 0 without a signature,
\* chars = the characters the block adds to content_chars.
Block(btype, dumped, sig, chars) ==
    [btype |-> btype, dumped |-> dumped, sig |-> sig, chars |-> chars]

NoUsage ==
    [has |-> FALSE, inf |-> FALSE, input_tokens |-> 0,
     cache_creation_input_tokens |-> 0, cache_read_input_tokens |-> 0]

\* usage with input_tokens present; inf: input_tokens is a float infinity
\* (json.loads reads 1e999 and Infinity as inf)
Usage(inp, cc, cr) ==
    [has |-> TRUE, inf |-> FALSE, input_tokens |-> inp,
     cache_creation_input_tokens |-> cc, cache_read_input_tokens |-> cr]

InfUsage == [Usage(0, 0, 0) EXCEPT !.inf = TRUE]

NoContent == [kind |-> "none", chars |-> 0, blocks |-> <<>>]
StrContent(n) == [kind |-> "str", chars |-> n, blocks |-> <<>>]
ListContent(bs) == [kind |-> "list", chars |-> 0, blocks |-> bs]

\* json: "blank" (only whitespace), "invalid" (json.loads raises
\* JSONDecodeError), "nonobject" (valid JSON that is no object: array, number,
\* string, null), "object".  bytes = len(line.encode("utf-8")).  role = "" when
\* the record has no role.  summary = len(parsed["summary"]), 0 when absent or
\* empty.  content: message.content, else the record's content.
Line(json, bytes, type, subtype, role, summary, content, usage) ==
    [json |-> json, bytes |-> bytes, type |-> type, subtype |-> subtype,
     role |-> role, summary |-> summary, content |-> content, usage |-> usage]

BlankLine    == Line("blank", 0, "", "", "", 0, NoContent, NoUsage)
InvalidLine  == Line("invalid", 30, "", "", "", 0, NoContent, NoUsage)
ArrayLine    == Line("nonobject", 7, "", "", "", 0, NoContent, NoUsage)
SummaryLine  == Line("object", 40, "summary", "", "", 12, NoContent, NoUsage)
BoundaryLine == Line("object", 50, "system", "compact_boundary", "", 0,
                     NoContent, NoUsage)
FileHistoryLine == Line("object", 6000, "file-history-snapshot", "", "", 0,
                        NoContent, NoUsage)
QueueLine    == Line("object", 25, "queue-operation", "", "", 0, NoContent,
                     NoUsage)
UserLine     == Line("object", 60, "user", "", "", 0, StrContent(24), NoUsage)
AssistantLine == Line("object", 70, "assistant", "", "", 0,
                      ListContent(<<Block("text", 0, 0, 20)>>), NoUsage)
\* an assistant turn with a signed thinking block and a tool call
ThinkingLine == Line("object", 150, "message", "", "assistant", 0,
                     ListContent(<<Block("thinking", 0, 30, 8),
                                   Block("tool_use", 40, 0, 10)>>),
                     Usage(3, 2, 2))
UsageLine    == Line("object", 90, "assistant", "", "", 0, StrContent(16),
                     Usage(9, 0, 0))
InfUsageLine == Line("object", 65, "assistant", "", "", 0, NoContent, InfUsage)
\* a user turn whose tool result re-serialises longer than the raw line
\* (json.dumps escapes non-ASCII text and spaces its separators)
ToolResultLine == Line("object", 100, "user", "", "", 0,
                       ListContent(<<Block("tool_result", 120, 0, 16)>>),
                       NoUsage)
ProgressLine == Line("object", 45, "progress", "", "", 0, StrContent(5),
                     NoUsage)

Lines ==
    {BlankLine, InvalidLine, ArrayLine, SummaryLine, BoundaryLine,
     FileHistoryLine, QueueLine, UserLine, AssistantLine, ThinkingLine,
     UsageLine, InfUsageLine, ToolResultLine, ProgressLine}

-----------------------------------------------------------------------------
(* analyze_session: the fold over the lines *)

NoApi == [some |-> FALSE, inf |-> FALSE, val |-> 0]

\* the local counters as initialised before the file is opened
FreshAcc ==
    [total_bytes |-> 0, tool_result_bytes |-> 0, tool_result_count |-> 0,
     thinking_bytes |-> 0, thinking_count |-> 0, file_history_bytes |-> 0,
     file_history_count |-> 0, conversation_bytes |-> 0, tool_use_bytes |-> 0,
     tool_use_count |-> 0, other_bytes |-> 0, content_chars |-> 0,
     msg_user |-> 0, msg_assistant |-> 0, last_api_input_tokens |-> NoApi,
     content_chars_at_last_api |-> 0]

\* Mutant: other_bytes lives outside the function and is never cleared
start_acc_shared_other(prev) == [FreshAcc EXCEPT !.other_bytes = prev.other_bytes]

\* The counters a session starts from; prev: what the session before it left
\* in them (they are locals of analyze_session, so nothing of it)
start_acc(prev) == FreshAcc

is_compaction(line) ==
    \/ line.type = "summary"
    \/ line.type = "system" /\ line.subtype = "compact_boundary"

\* parsed.get("role") or parsed.get("type")
role_of(line) == IF line.role # "" THEN line.role ELSE line.type

\* parsed.get("summary") or (content if it is a str), as a length
summary_len(line) ==
    IF line.summary > 0 THEN line.summary
    ELSE IF line.content.kind = "str" THEN line.content.chars ELSE 0

\* Mutant: other_bytes is left out of the reset
compaction_reset_keeps_other(a, line) ==
    LET s == summary_len(line)
    IN  [FreshAcc EXCEPT
            !.total_bytes = line.bytes,
            !.last_api_input_tokens = a.last_api_input_tokens,
            !.other_bytes = a.other_bytes,
            !.content_chars = IF s > 0 THEN s ELSE 0,
            !.conversation_bytes = IF s > 0 THEN line.bytes ELSE 0]

\* The compaction branch: every counter but last_api_input_tokens is reset,
\* total_bytes restarts at the boundary's own length
compaction_reset(a, line) ==
    LET s == summary_len(line)
    IN  [FreshAcc EXCEPT
            !.total_bytes = line.bytes,
            !.last_api_input_tokens = a.last_api_input_tokens,
            !.content_chars = IF s > 0 THEN s ELSE 0,
            !.conversation_bytes = IF s > 0 THEN line.bytes ELSE 0]

\* usage.input_tokens + cache_creation_input_tokens + cache_read_input_tokens
api_input_of(u) ==
    [some |-> TRUE, inf |-> u.inf,
     val |-> IF u.inf THEN 0
             ELSE u.input_tokens + u.cache_creation_input_tokens
                  + u.cache_read_input_tokens]

\* api_input > 0 and api_input != last_api_input_tokens
is_new_anchor(api, last) ==
    /\ api.inf \/ api.val > 0
    /\ api # last

\* The assistant branch: count the turn and move the anchor
assistant_update(a, line) ==
    LET a1  == [a EXCEPT !.msg_assistant = @ + 1]
        api == api_input_of(line.usage)
    IN  IF line.usage.has /\ is_new_anchor(api, a.last_api_input_tokens)
        THEN [a1 EXCEPT !.last_api_input_tokens = api,
                        !.content_chars_at_last_api = a.content_chars]
        ELSE a1

\* The loop over the blocks of a content list: the per-record byte sums, the
\* block counts and the characters
RECURSIVE blocks_fold(_)
blocks_fold(bs) ==
    IF bs = <<>>
    THEN [tr_b |-> 0, sig_b |-> 0, tu_b |-> 0, tr_n |-> 0, th_n |-> 0,
          tu_n |-> 0, chars |-> 0]
    ELSE LET b == bs[Len(bs)]
             r == blocks_fold(SubSeq(bs, 1, Len(bs) - 1))
         IN  CASE b.btype = "tool_result" ->
                    [r EXCEPT !.tr_b = @ + b.dumped, !.tr_n = @ + 1,
                              !.chars = @ + b.chars]
               [] b.btype = "thinking" ->
                    [r EXCEPT !.sig_b = @ + b.sig,
                              !.th_n = @ + (IF b.sig > 0 THEN 1 ELSE 0),
                              !.chars = @ + b.chars]
               [] b.btype = "tool_use" ->
                    [r EXCEPT !.tu_b = @ + b.dumped, !.tu_n = @ + 1,
                              !.chars = @ + b.chars]
               [] b.btype = "text" -> [r EXCEPT !.chars = @ + b.chars]
               [] OTHER -> r

\* max(0, line_bytes - accounted)
remainder(line_bytes, accounted) == Max(0, line_bytes - accounted)

\* The content part of a conversational or other record
content_update(a, line) ==
    LET f == IF line.content.kind = "list" THEN blocks_fold(line.content.blocks)
             ELSE blocks_fold(<<>>)
        chars == IF line.content.kind = "str" THEN line.content.chars
                 ELSE f.chars
        accounted == f.tr_b + f.sig_b + f.tu_b
        rest == remainder(line.bytes, accounted)
        turn == role_of(line) \in {"user", "human", "assistant"}
    IN  [a EXCEPT
            !.tool_result_bytes = @ + f.tr_b,
            !.tool_result_count = @ + f.tr_n,
            !.thinking_bytes = @ + f.sig_b,
            !.thinking_count = @ + f.th_n,
            !.tool_use_bytes = @ + f.tu_b,
            !.tool_use_count = @ + f.tu_n,
            !.content_chars = @ + chars,
            !.conversation_bytes = IF turn THEN @ + rest ELSE @,
            !.other_bytes = IF turn THEN @ ELSE @ + rest]

\* A line on which the body of the loop raises: parsed.get on a value that
\* is no dict (AttributeError)
raises(line) == line.json = "nonobject"

\* One iteration of `for line in f` that does not raise
step_line(a, line) ==
    IF line.json = "blank" THEN a
    ELSE IF line.json = "invalid"
    THEN [a EXCEPT !.total_bytes = @ + line.bytes,
                   !.other_bytes = @ + line.bytes]
    ELSE IF is_compaction(line) THEN compaction_reset(a, line)
    ELSE LET a1 == [a EXCEPT !.total_bytes = @ + line.bytes]
         IN  IF line.type = "file-history-snapshot"
             THEN [a1 EXCEPT !.file_history_bytes = @ + line.bytes,
                             !.file_history_count = @ + 1]
             ELSE IF line.type = "queue-operation"
             THEN [a1 EXCEPT !.other_bytes = @ + line.bytes]
             ELSE LET a2 == IF role_of(line) \in {"user", "human"}
                            THEN [a1 EXCEPT !.msg_user = @ + 1]
                            ELSE IF role_of(line) = "assistant"
                            THEN assistant_update(a1, line)
                            ELSE a1
                  IN  content_update(a2, line)

\* The loop over a sequence of lines none of which raises
RECURSIVE fold_lines(_, _)
fold_lines(a, ls) ==
    IF ls = <<>> THEN a
    ELSE step_line(fold_lines(a, SubSeq(ls, 1, Len(ls) - 1)), ls[Len(ls)])

-----------------------------------------------------------------------------
(* analyze_session: after the loop *)

NoData == [session_id |-> 0]
ReturnNone == [kind |-> "None", data |-> NoData]

\* last_api + (content_chars - content_chars_at_last_api) // 4, or the
\* heuristic content_chars // 4 + SYSTEM_OVERHEAD
estimate_tokens(a) ==
    IF a.last_api_input_tokens.some
    THEN a.last_api_input_tokens.val
         + (a.content_chars - a.content_chars_at_last_api) \div CHARS_PER_TOKEN
    ELSE a.content_chars \div CHARS_PER_TOKEN + SYSTEM_OVERHEAD

\* removed, times 10: file_history + thinking + 0.7 tool_result
\* - 35 tool_result_count + 0.3 tool_use
removed_x10(a) ==
    10 * a.file_history_bytes + 10 * a.thinking_bytes
    + 7 * a.tool_result_bytes - 10 * RESULT_CREDIT * a.tool_result_count
    + 3 * a.tool_use_bytes

\* Mutant: the ratio is not capped at 0.95
ratio_num_uncapped(a) == Max(0, 2 * removed_x10(a))

\* Mutant: the ratio is not clamped at 0
ratio_num_unclamped_below(a) == Min(19 * a.total_bytes, 2 * removed_x10(a))

\* ratio = max(0.0, min(0.95, removed / total_bytes)), as a numerator over
\* the denominator 20 * total_bytes
ratio_num(a) == Max(0, Min(19 * a.total_bytes, 2 * removed_x10(a)))

\* removed = file_history_bytes + thinking_bytes + tool_result_bytes * 0.7
\* - tool_result_count * 35 + tool_use_bytes * 0.3 in doubles, left to right,
\* as [neg, abs]: the sign and the magnitude
fl_removed(a) ==
    Only({IF FGe(plus, credit)
          THEN [neg |-> FALSE, abs |-> FAdd(FSub(plus, credit), use)]
          ELSE Only({IF FGe(use, debt)
                     THEN [neg |-> FALSE, abs |-> FSub(use, debt)]
                     ELSE [neg |-> TRUE, abs |-> FSub(debt, use)] :
                     debt \in {FSub(credit, plus)}}) :
          plus \in {FAdd(FOfInt(a.file_history_bytes + a.thinking_bytes),
                         FMul(FOfInt(a.tool_result_bytes),
                              FDiv(FOfInt(7), 5, 1)))},
          credit \in {FOfInt(a.tool_result_count * RESULT_CREDIT)},
          use \in {FMul(FOfInt(a.tool_use_bytes), FDiv(FOfInt(3), 5, 1))}})

\* ratio = max(0.0, min(0.95, removed / total_bytes)) in doubles
fl_ratio(a) ==
    Only({IF removed.neg THEN FZero
          ELSE Only({IF FGe(q, cap) THEN cap ELSE q :
                     q \in {FDivInt(removed.abs, a.total_bytes)},
                     cap \in {FDiv(FOfInt(19), 5, 2)}}) :
          removed \in {fl_removed(a)}})

\* round(content_tok * (1 - ratio)) in doubles
fl_kept(a, content_tok) ==
    RoundScaled(FMul(FOfInt(content_tok), FSub(FOfInt(1), fl_ratio(a))), 1)

\* round((est - post) / est * 100, 1) in doubles, in tenths, for
\* est >= post and est > 0
fl_reduction(estimated_tokens, post_trim_tokens) ==
    RoundScaled(FMul(FDivInt(FOfInt(estimated_tokens - post_trim_tokens),
                             estimated_tokens),
                     FOfInt(100)), 10)

\* round(tool_result_bytes / total_bytes * 100) in doubles
fl_tr_pct(a) ==
    RoundScaled(FMul(FDivInt(FOfInt(a.tool_result_bytes), a.total_bytes),
                     FOfInt(100)), 1)

\* Mutant: the ratio is applied to the whole estimate, overhead included
post_trim_whole_estimate(a, estimated_tokens) ==
    IF a.total_bytes > 0
    THEN LET den == 20 * a.total_bytes
         IN  RoundDiv(estimated_tokens * (den - ratio_num(a)), den)
    ELSE estimated_tokens

\* round(content_tok * (1 - ratio)): the exact product is a multiple of
\* 1 / (20 * total_bytes) and its double is within 2^-30 of it, so a product
\* that is not exactly halfway between two integers rounds as its exact
\* value; one that is rounds as the doubles decide
kept_tokens(a, content_tok) ==
    LET den == 20 * a.total_bytes
        num == content_tok * (den - ratio_num(a))
    IN  IF 2 * (num % den) = den THEN fl_kept(a, content_tok)
        ELSE RoundDiv(num, den)

\* round(content_tok * (1 - ratio)) + SYSTEM_OVERHEAD, or the estimate itself
\* when total_bytes = 0
post_trim_estimate(a, estimated_tokens) ==
    IF a.total_bytes > 0
    THEN kept_tokens(a, Max(0, estimated_tokens - SYSTEM_OVERHEAD))
         + SYSTEM_OVERHEAD
    ELSE estimated_tokens

\* Mutant: the clamp left out
clamp_post_missing(post_trim_tokens, estimated_tokens) == post_trim_tokens

\* post_trim_tokens = min(post_trim_tokens, estimated_tokens)
clamp_post(post_trim_tokens, estimated_tokens) ==
    Min(post_trim_tokens, estimated_tokens)

\* max(0.0, round((est - post) / est * 100, 1)) in tenths of a percent, 0.0
\* when est = 0; a quotient exactly halfway between two tenths rounds as the
\* doubles decide
reduction_of(estimated_tokens, post_trim_tokens) ==
    IF estimated_tokens > 0
    THEN LET num == (estimated_tokens - post_trim_tokens) * 1000
         IN  IF num > 0 /\ 2 * (num % estimated_tokens) = estimated_tokens
             THEN fl_reduction(estimated_tokens, post_trim_tokens)
             ELSE Max(0, RoundDiv(num, estimated_tokens))
    ELSE 0

\* round(tool_result_bytes / total_bytes * 100) if total_bytes > 0 else 0;
\* a share exactly halfway between two integers rounds as the doubles decide
tr_pct_of(a) ==
    IF a.total_bytes > 0
    THEN IF 2 * ((a.tool_result_bytes * 100) % a.total_bytes) = a.total_bytes
         THEN fl_tr_pct(a)
         ELSE RoundDiv(a.tool_result_bytes * 100, a.total_bytes)
    ELSE 0

\* The SessionData analyze_session builds; path: the file's place in the batch
session_data(a, path) ==
    LET est  == estimate_tokens(a)
        post == clamp_post(post_trim_estimate(a, est), est)
    IN  [session_id |-> path, project |-> path,
         estimated_tokens |-> est,
         post_trim_tokens |-> post,
         reduction_pct |-> reduction_of(est, post),
         message_count |-> a.msg_user + a.msg_assistant,
         breakeven_turns |-> 0,
         cache_miss_penalty |-> W(0),
         savings_per_turn |-> W(0),
         tool_result_byte_pct |-> tr_pct_of(a),
         tool_result_bytes |-> a.tool_result_bytes,
         thinking_bytes |-> a.thinking_bytes,
         file_history_bytes |-> a.file_history_bytes,
         conversation_bytes |-> a.conversation_bytes,
         tool_use_bytes |-> a.tool_use_bytes,
         other_bytes |-> a.other_bytes,
         total_bytes |-> a.total_bytes,
         tool_result_count |-> a.tool_result_count]

\* Mutant: ten turns are not yet enough
finish_needs_more(a, path) ==
    IF a.msg_user + a.msg_assistant <= MIN_TURNS THEN ReturnNone
    ELSE IF a.last_api_input_tokens.some /\ a.last_api_input_tokens.inf
    THEN [kind |-> "raise", data |-> NoData]
    ELSE [kind |-> "SessionData", data |-> session_data(a, path)]

\* What the code after the loop does: None below ten turns; with an infinite
\* anchor estimated_tokens is inf and round(inf * (1 - ratio)) raises
\* OverflowError outside the try (total_bytes > 0 there: every counted turn
\* added its bytes); else the SessionData
finish(a, path) ==
    IF a.msg_user + a.msg_assistant < MIN_TURNS THEN ReturnNone
    ELSE IF a.last_api_input_tokens.some /\ a.last_api_input_tokens.inf
    THEN [kind |-> "raise", data |-> NoData]
    ELSE [kind |-> "SessionData", data |-> session_data(a, path)]

\* os.path.getsize: the lines and their newlines
RECURSIVE file_size(_)
file_size(ls) ==
    IF ls = <<>> THEN 0
    ELSE file_size(SubSeq(ls, 1, Len(ls) - 1)) + ls[Len(ls)].bytes + 1

\* analyze_session as a function of the file and its path
analyze_session(f, path) ==
    IF ~f.readable \/ file_size(f.log) < MIN_FILE_SIZE THEN ReturnNone
    ELSE IF \E j \in 1..Len(f.log) : raises(f.log[j]) THEN ReturnNone
    ELSE finish(fold_lines(FreshAcc, f.log), path)

-----------------------------------------------------------------------------
(* main, standalone mode *)

\* The derived cost fields main fills in for a session it keeps
enrich(sa, model, hit) ==
    [sa EXCEPT
        !.breakeven_turns =
            project_costs(sa.estimated_tokens, sa.post_trim_tokens, model, hit,
                          MAX_TURNS).breakeven,
        !.cache_miss_penalty =
            WSub(cold_cost(sa.post_trim_tokens, model),
                 cost_per_turn(sa.estimated_tokens, hit, model)),
        !.savings_per_turn =
            WSub(cost_per_turn(sa.estimated_tokens, hit, model),
                 cost_per_turn(sa.post_trim_tokens, hit, model))]

\* if sa and sa.estimated_tokens >= args.min_tokens: ... sessions.append(sa)
keep_session(ss, ret, model, hit) ==
    IF ret.kind = "SessionData" /\ ret.data.estimated_tokens >= MIN_TOKENS
    THEN Append(ss, enrich(ret.data, model, hit))
    ELSE ss

\* sessions.sort(key=lambda s: s.estimated_tokens, reverse=True): stable
RECURSIVE sort_sessions(_)
sort_sessions(ss) ==
    IF Len(ss) <= 1 THEN ss
    ELSE LET last == ss[Len(ss)]
             init == sort_sessions(SubSeq(ss, 1, Len(ss) - 1))
             k == Cardinality({j \in 1..Len(init) :
                      init[j].estimated_tokens >= last.estimated_tokens})
         IN  SubSeq(init, 1, k) \o <<last>> \o SubSeq(init, k + 1, Len(init))


-----------------------------------------------------------------------------
(* load_from_json *)

OptionalKeys ==
    {"breakdown", "totalBytes", "messageCount", "cacheMissPenalty",
     "savingsPerTurn", "toolResultBytePct"}

NoBreakdown ==
    [toolResults |-> 0, thinkingSignatures |-> 0, fileHistory |-> 0,
     conversation |-> 0, toolUseRequests |-> 0, other |-> 0, count |-> 0]

\* s.get(key, default)
get(s, key, value, default) == IF key \in s.keys THEN value ELSE default

\* Mutant: the break-even stored in the file is trusted
from_json_stored_breakeven(s, model, hit) ==
    LET bd    == get(s, "breakdown", s.breakdown, NoBreakdown)
        total == get(s, "totalBytes", s.totalBytes,
                     bd.toolResults + bd.thinkingSignatures + bd.fileHistory
                     + bd.conversation + bd.toolUseRequests + bd.other)
        proj  == project_costs(s.estimatedTokens, s.postTrimTokens, model, hit,
                               MAX_TURNS)
    IN  [session_id |-> s.sessionId, project |-> 0,
         estimated_tokens |-> s.estimatedTokens,
         post_trim_tokens |-> s.postTrimTokens,
         reduction_pct |-> s.reductionPercent,
         message_count |-> get(s, "messageCount", s.messageCount, 0),
         breakeven_turns |-> s.breakevenTurns,
         cache_miss_penalty |-> get(s, "cacheMissPenalty", s.cacheMissPenalty, W(0)),
         savings_per_turn |-> get(s, "savingsPerTurn", s.savingsPerTurn, W(0)),
         tool_result_byte_pct |-> get(s, "toolResultBytePct", s.toolResultBytePct, 0),
         tool_result_bytes |-> bd.toolResults,
         thinking_bytes |-> bd.thinkingSignatures,
         file_history_bytes |-> bd.fileHistory,
         conversation_bytes |-> bd.conversation,
         tool_use_bytes |-> bd.toolUseRequests,
         other_bytes |-> bd.other,
         total_bytes |-> total,
         tool_result_count |-> bd.count]

\* The SessionData load_from_json appends for entry s
from_json(s, model, hit) ==
    LET bd    == get(s, "breakdown", s.breakdown, NoBreakdown)
        total == get(s, "totalBytes", s.totalBytes,
                     bd.toolResults + bd.thinkingSignatures + bd.fileHistory
                     + bd.conversation + bd.toolUseRequests + bd.other)
        proj  == project_costs(s.estimatedTokens, s.postTrimTokens, model, hit,
                               MAX_TURNS)
    IN  [session_id |-> s.sessionId, project |-> 0,
         estimated_tokens |-> s.estimatedTokens,
         post_trim_tokens |-> s.postTrimTokens,
         reduction_pct |-> s.reductionPercent,
         message_count |-> get(s, "messageCount", s.messageCount, 0),
         breakeven_turns |-> proj.breakeven,
         cache_miss_penalty |-> get(s, "cacheMissPenalty", s.cacheMissPenalty, W(0)),
         savings_per_turn |-> get(s, "savingsPerTurn", s.savingsPerTurn, W(0)),
         tool_result_byte_pct |-> get(s, "toolResultBytePct", s.toolResultBytePct, 0),
         tool_result_bytes |-> bd.toolResults,
         thinking_bytes |-> bd.thinkingSignatures,
         file_history_bytes |-> bd.fileHistory,
         conversation_bytes |-> bd.conversation,
         tool_use_bytes |-> bd.toolUseRequests,
         other_bytes |-> bd.other,
         total_bytes |-> total,
         tool_result_count |-> bd.count]

-----------------------------------------------------------------------------
(* classify_tiers *)

TierNames == {"tool_heavy", "mixed", "conversational"}

StatKeys ==
    {"mean_reduction_pct", "median_reduction_pct", "min_reduction_pct",
     "max_reduction_pct", "mean_breakeven", "median_breakeven", "mean_tokens"}

\* tiers[s.tier].append(s) over the sessions: the sessions of one tier, in
\* their order
RECURSIVE tier_sessions_of(_, _)
tier_sessions_of(ss, tier_name) ==
    IF ss = <<>> THEN <<>>
    ELSE LET init == tier_sessions_of(SubSeq(ss, 1, Len(ss) - 1), tier_name)
             s    == ss[Len(ss)]
         IN  IF tier(s.tool_result_byte_pct) = tier_name
             THEN Append(init, s) ELSE init

RECURSIVE SeqSum(_)
SeqSum(xs) ==
    IF xs = <<>> THEN 0 ELSE SeqSum(SubSeq(xs, 1, Len(xs) - 1)) + xs[Len(xs)]

SeqMin(xs) == CHOOSE x \in {xs[j] : j \in 1..Len(xs)} :
                  \A k \in 1..Len(xs) : x <= xs[k]
SeqMax(xs) == CHOOSE x \in {xs[j] : j \in 1..Len(xs)} :
                  \A k \in 1..Len(xs) : x >= xs[k]

\* np.median times two: the middle element twice, or the sum of the two
\* middle elements
Median2(xs) ==
    LET n == Len(xs)
        \* the j-th smallest element
        nth(j) == CHOOSE x \in {xs[k] : k \in 1..n} :
                      /\ Cardinality({k \in 1..n : xs[k] < x}) < j
                      /\ Cardinality({k \in 1..n : xs[k] <= x}) >= j
    IN  IF n % 2 = 1 THEN 2 * nth((n + 1) \div 2)
        ELSE nth(n \div 2) + nth(n \div 2 + 1)

\* Mutant: an empty tier is reported with zero-filled statistics
tier_entry_zero_filled(tier_name, tier_sessions) ==
    [keys |-> {"count", "label"} \cup StatKeys,
     count |-> Len(tier_sessions), label |-> tier_name,
     mean_reduction_pct |-> 0, median_reduction_pct |-> 0,
     min_reduction_pct |-> 0, max_reduction_pct |-> 0,
     mean_breakeven |-> 0, median_breakeven |-> 0, mean_tokens |-> 0]

\* result[tier_name]: count and label only for an empty tier, else the
\* statistics too (reductions in tenths of a percent; fields outside keys
\* are absent from the dict)
tier_entry(tier_name, tier_sessions) ==
    IF tier_sessions = <<>>
    THEN [keys |-> {"count", "label"}, count |-> 0, label |-> tier_name,
          mean_reduction_pct |-> 0, median_reduction_pct |-> 0,
          min_reduction_pct |-> 0, max_reduction_pct |-> 0,
          mean_breakeven |-> 0, median_breakeven |-> 0, mean_tokens |-> 0]
    ELSE LET n    == Len(tier_sessions)
             reds == [j \in 1..n |-> tier_sessions[j].reduction_pct]
             bes  == [j \in 1..n |-> Min(tier_sessions[j].breakeven_turns, 100)]
             toks == [j \in 1..n |-> tier_sessions[j].estimated_tokens]
         IN  [keys |-> {"count", "label"} \cup StatKeys,
              count |-> n, label |-> tier_name,
              mean_reduction_pct |-> RoundDiv(SeqSum(reds), n),
              median_reduction_pct |-> RoundDiv(Median2(reds), 2),
              min_reduction_pct |-> SeqMin(reds),
              max_reduction_pct |-> SeqMax(reds),
              mean_breakeven |-> RoundDiv(SeqSum(bes), n),
              median_breakeven |-> RoundDiv(Median2(bes), 2),
              mean_tokens |-> SeqSum(toks) \div n]

classify_tiers(ss) ==
    [tier_name \in TierNames |->
        tier_entry(tier_name, tier_sessions_of(ss, tier_name))]

\* Before write_stats ran
NoTiers == [tier_name \in TierNames |-> tier_entry(tier_name, <<>>)]

-----------------------------------------------------------------------------
(* Inputs *)

\* --model and --cache-rate: every pricing table at hit rates 0 and 90 for a
\* ground-truth file; the defaults and one other pair for raw logs
HitRates == {0, 90}
JsonConfigs == Models \X HitRates
StandaloneConfigs == {<<"sonnet", 90>>, <<"opus4", 0>>}

\* MIN_TURNS - 1 plain turns, user and assistant alternating
Run == [j \in 1..(MIN_TURNS - 1) |-> IF j % 2 = 1 THEN UserLine ELSE AssistantLine]

ExtraSeqs == UNION {[1..n -> Lines] : n \in 0..MaxExtra}

\* A log: up to MaxExtra arbitrary lines, with or without the run of plain
\* turns somewhere among them
Logs ==
    {SubSeq(e, 1, k) \o r \o SubSeq(e, k + 1, Len(e)) :
        <<e, k, r>> \in {t \in ExtraSeqs \X (0..MaxExtra) \X {<<>>, Run} :
                            t[2] <= Len(t[1])}}

File(readable, log) == [readable |-> readable, log |-> log]

\* Logs of the batches of several files: one line, the run, one user turn
BatchHeads ==
    {InvalidLine, ArrayLine, SummaryLine, FileHistoryLine, UserLine,
     UsageLine, InfUsageLine, ToolResultLine}
BatchLogs == {<<x>> \o Run \o <<UserLine>> : x \in BatchHeads}

\* Logs that were compacted: a user turn and one more record, a compaction
\* boundary, the run and one more turn
CompactedLogs ==
    {<<UserLine, x, b>> \o Run \o <<y>> :
        <<x, b, y>> \in {UserLine, UsageLine, ToolResultLine}
                        \X {SummaryLine, BoundaryLine}
                        \X {UserLine, UsageLine}}

Batches ==
    {<<File(TRUE, l)>> : l \in Logs \cup CompactedLogs}
    \cup {<<File(FALSE, <<>>)>>}
    \cup UNION {[1..n -> {File(TRUE, l) : l \in BatchLogs}] : n \in 2..MaxBatch}

Scenario2 ==
    [toolResults |-> 400000, thinkingSignatures |-> 50000,
     fileHistory |-> 100000, conversation |-> 25000, toolUseRequests |-> 20000,
     other |-> 5000, count |-> 200]

JsonTokens == {0, 20000, 100000}

Entry(keys, est, post, red, pct) ==
    [keys |-> keys, sessionId |-> 0, estimatedTokens |-> est,
     postTrimTokens |-> post, reductionPercent |-> red, messageCount |-> 12,
     cacheMissPenalty |-> W(123), savingsPerTurn |-> W(45),
     breakevenTurns |-> 7,
     toolResultBytePct |-> pct, totalBytes |-> 600000, breakdown |-> Scenario2]

\* Entries with the required keys only, and entries with every optional key
Entries ==
    {Entry({}, e, p, r, 0) : <<e, p, r>> \in JsonTokens \X JsonTokens \X {0, 800}}
    \cup {Entry(OptionalKeys, e, p, 800, q) :
            <<e, p, q>> \in JsonTokens \X JsonTokens
                            \X {0, TIER_MIXED, TIER_MIXED + 1,
                                TIER_TOOL_HEAVY, TIER_TOOL_HEAVY + 1}}

\* data["sessions"]: the entries carry their position as sessionId
DataFiles ==
    UNION {{[j \in 1..n |-> [d[j] EXCEPT !.sessionId = j]] :
              d \in [1..n -> Entries]} : n \in 0..MaxEntries}

NoArgs == [pre_tokens |-> 0, post_tokens |-> 0, model |-> "sonnet",
           hit |-> 0, max_turns |-> 0]
NoProjection == [turns |-> <<>>, no_trim |-> <<>>, with_trim |-> <<>>,
                 diff |-> <<>>, breakeven |-> 0]

-----------------------------------------------------------------------------
(* main *)

InitStandalone ==
    /\ mode = "standalone"
    /\ \E c \in StandaloneConfigs : pricing = c[1] /\ hit_rate = c[2]
    /\ batch \in Batches
    /\ data = <<>>
    /\ pc = "loop"

InitJson ==
    /\ mode = "json"
    /\ \E c \in JsonConfigs : pricing = c[1] /\ hit_rate = c[2]
    /\ batch = <<>>
    /\ data \in DataFiles
    /\ pc = "json"

Init ==
    /\ InitStandalone \/ InitJson
    /\ idx = 1
    /\ pos = 0
    /\ acc = FreshAcc
    /\ returned = <<>>
    /\ sessions = <<>>
    /\ cost_args = NoArgs
    /\ cost_result = NoProjection
    /\ tiers = NoTiers

\* analyze_session returned ret to the loop of main, which keeps or skips it
\* and moves to the next file
Return(ret) ==
    /\ returned' = Append(returned, ret)
    /\ sessions' = keep_session(sessions, ret, pricing, hit_rate)
    /\ idx' = idx + 1
    /\ pc' = "loop"

\* analyze_session up to the open: the size check
AnalyzeOpen ==
    /\ pc = "loop"
    /\ idx <= Len(batch)
    /\ IF ~batch[idx].readable \/ file_size(batch[idx].log) < MIN_FILE_SIZE
       THEN Return(ReturnNone) /\ UNCHANGED <<pos, acc>>
       ELSE /\ acc' = start_acc(acc)
            /\ pos' = 0
            /\ pc' = "fold"
            /\ UNCHANGED <<idx, returned, sessions>>
    /\ UNCHANGED <<mode, pricing, hit_rate, batch, data, cost_args, cost_result, tiers>>

\* One iteration of the loop over the lines; an exception ends the session
\* with None
ReadLine ==
    /\ pc = "fold"
    /\ pos < Len(batch[idx].log)
    /\ LET line == batch[idx].log[pos + 1]
       IN  IF raises(line)
           THEN Return(ReturnNone) /\ UNCHANGED <<pos, acc>>
           ELSE /\ acc' = step_line(acc, line)
                /\ pos' = pos + 1
                /\ UNCHANGED <<idx, pc, returned, sessions>>
    /\ UNCHANGED <<mode, pricing, hit_rate, batch, data, cost_args, cost_result, tiers>>

\* The end of the file: the code after the loop; an exception it raises is
\* caught nowhere and ends main, nothing is returned
AnalyzeFinish ==
    /\ pc = "fold"
    /\ pos = Len(batch[idx].log)
    /\ LET ret == finish(acc, idx)
       IN  IF ret.kind = "raise"
           THEN /\ pc' = "aborted"
                /\ UNCHANGED <<idx, returned, sessions>>
           ELSE Return(ret)
    /\ UNCHANGED <<mode, pricing, hit_rate, batch, data, pos, acc, cost_args,
                   cost_result, tiers>>

\* One iteration of the loop of load_from_json
LoadEntry ==
    /\ pc = "json"
    /\ idx <= Len(data)
    /\ sessions' = Append(sessions, from_json(data[idx], pricing, hit_rate))
    /\ idx' = idx + 1
    /\ UNCHANGED <<mode, pricing, hit_rate, batch, data, pc, pos, acc, returned,
                   cost_args, cost_result, tiers>>

\* After loading: exit without sessions, else sort them for the outputs
MainSort ==
    /\ \/ pc = "loop" /\ idx > Len(batch)
       \/ pc = "json" /\ idx > Len(data)
    /\ IF sessions = <<>>
       THEN pc' = "exit" /\ UNCHANGED sessions
       ELSE pc' = "output" /\ sessions' = sort_sessions(sessions)
    /\ UNCHANGED <<mode, pricing, hit_rate, batch, data, idx, pos, acc,
                   returned, cost_args, cost_result, tiers>>

\* write_stats (--stats): tiers = classify_tiers(sessions)
WriteStats ==
    /\ pc = "output"
    /\ tiers' = classify_tiers(sessions)
    /\ pc' = "stats"
    /\ UNCHANGED <<mode, pricing, hit_rate, batch, data, idx, pos, acc,
                   returned, sessions, cost_args, cost_result>>

Next ==
    AnalyzeOpen \/ ReadLine \/ AnalyzeFinish \/ LoadEntry \/ MainSort
    \/ WriteStats

Spec == Init /\ [][Next]_vars

-----------------------------------------------------------------------------
(* project_costs on its own *)

CostTokens == {0, 20000, 99000, 100000}
CostHitRates == {0, 50, 90, 100}
CostHorizons == {1, 2, MAX_TURNS}

InitCost ==
    /\ mode = "cost"
    /\ pc = "call"
    /\ cost_args \in [pre_tokens : CostTokens, post_tokens : CostTokens,
                      model : Models, hit : CostHitRates,
                      max_turns : CostHorizons]
    /\ cost_result = NoProjection
    /\ pricing = "sonnet"
    /\ hit_rate = 0
    /\ batch = <<>>
    /\ data = <<>>
    /\ idx = 1
    /\ pos = 0
    /\ acc = FreshAcc
    /\ returned = <<>>
    /\ sessions = <<>>
    /\ tiers = NoTiers

ProjectCall ==
    /\ pc = "call"
    /\ cost_result' = project_costs(cost_args.pre_tokens, cost_args.post_tokens,
                                    cost_args.model, cost_args.hit,
                                    cost_args.max_turns)
    /\ pc' = "returned"
    /\ UNCHANGED <<mode, pricing, hit_rate, batch, data, idx, pos, acc,
                   returned, sessions, cost_args, tiers>>

NextCost == ProjectCall

SpecCost == InitCost /\ [][NextCost]_vars

-----------------------------------------------------------------------------
(* analyze_session after the loop, on its own *)

\* last_api_input_tokens at the end of the loop: none, or a reported total
TrimAnchors ==
    {NoApi} \cup {[some |-> TRUE, inf |-> FALSE, val |-> v] :
                     v \in {100, SYSTEM_OVERHEAD, SYSTEM_OVERHEAD + 1,
                            SYSTEM_OVERHEAD + 10, SYSTEM_OVERHEAD + 50,
                            SYSTEM_OVERHEAD + 4003}}

\* Two of the ten turns, as <<tool_result_bytes, tool_result_count, raw bytes
\* of the two lines, their remainders>>: two plain turns; one tool result and
\* a plain turn; twenty results of 25 bytes on two lines; two results whose
\* non-ASCII text re-serialises to 700 bytes from lines of 300
TrimToolResults ==
    {<<0, 0, 100, 100>>, <<500, 1, 600, 100>>, <<500, 20, 600, 100>>,
     <<1400, 2, 600, 0>>}

\* The counters after ten turns: eight plain turns of 50 bytes, the two
\* turns above, with or without a file-history snapshot, a thinking
\* signature and a tool_use block in the lines
TrimCounters ==
    {[FreshAcc EXCEPT
         !.total_bytes = 400 + tr[3] + fh + th + tu,
         !.tool_result_bytes = tr[1], !.tool_result_count = tr[2],
         !.file_history_bytes = fh, !.thinking_bytes = th,
         !.tool_use_bytes = tu,
         !.conversation_bytes = 400 + tr[4],
         !.msg_user = MIN_TURNS \div 2,
         !.msg_assistant = MIN_TURNS - MIN_TURNS \div 2] :
       <<tr, fh, th, tu>> \in TrimToolResults \X {0, 450, 10000} \X {0, 300}
                              \X {0, 100}}

InitTrim ==
    /\ mode = "trim"
    /\ pc = "fold"
    /\ \E c \in TrimCounters, l \in TrimAnchors, n \in {0, 7} :
          acc = [c EXCEPT !.last_api_input_tokens = l, !.content_chars = n]
    /\ batch = <<File(TRUE, <<>>)>>
    /\ idx = 1
    /\ pos = 0
    /\ returned = <<>>
    /\ sessions = <<>>
    /\ pricing = "sonnet"
    /\ hit_rate = 0
    /\ data = <<>>
    /\ cost_args = NoArgs
    /\ cost_result = NoProjection
    /\ tiers = NoTiers

NextTrim == AnalyzeFinish

SpecTrim == InitTrim /\ [][NextTrim]_vars

-----------------------------------------------------------------------------
(* Claims *)

\* The records analyze_session has returned so far
ReturnedData ==
    {returned[k].data : k \in {j \in 1..Len(returned) :
                                  returned[j].kind = "SessionData"}}

TokenBounds(est, post, red) ==
    /\ 0 <= post /\ post <= est
    /\ 0 <= red /\ red <= 1000

\* C1, as claimed: every SessionData of either producer has
\* 0 <= post_trim_tokens <= estimated_tokens and 0 <= reduction_pct <= 100.
C1_AllProducersBounded ==
    /\ \A r \in ReturnedData :
           TokenBounds(r.estimated_tokens, r.post_trim_tokens, r.reduction_pct)
    /\ \A k \in 1..Len(sessions) :
           TokenBounds(sessions[k].estimated_tokens,
                       sessions[k].post_trim_tokens, sessions[k].reduction_pct)

\* C1, amended: every SessionData analyze_session returns, and every one main
\* keeps of them, has 0 <= post_trim_tokens <= estimated_tokens and
\* 0 <= reduction_pct <= 100; load_from_json copies the entry's
\* estimatedTokens, postTrimTokens and reductionPercent unchanged, so its
\* record has the bounds exactly when the entry has them.
C1_AnalyzerBoundedJsonCopied ==
    /\ \A r \in ReturnedData :
           TokenBounds(r.estimated_tokens, r.post_trim_tokens, r.reduction_pct)
    /\ mode = "standalone" =>
           \A k \in 1..Len(sessions) :
               TokenBounds(sessions[k].estimated_tokens,
                           sessions[k].post_trim_tokens,
                           sessions[k].reduction_pct)
    /\ mode = "json" =>
           \A k \in 1..Len(sessions) :
               LET s == data[sessions[k].session_id]
               IN  /\ sessions[k].estimated_tokens = s.estimatedTokens
                   /\ sessions[k].post_trim_tokens = s.postTrimTokens
                   /\ sessions[k].reduction_pct = s.reductionPercent
                   /\ TokenBounds(sessions[k].estimated_tokens,
                                  sessions[k].post_trim_tokens,
                                  sessions[k].reduction_pct)
                      <=> TokenBounds(s.estimatedTokens, s.postTrimTokens,
                                      s.reductionPercent)

\* C1 witness: the analyzer returned a record with a real reduction, and one
\* whose estimate lies below SYSTEM_OVERHEAD so that the clamp acts
C1_Witness ==
    /\ \E r \in ReturnedData :
           r.post_trim_tokens < r.estimated_tokens /\ r.reduction_pct > 0
    /\ \E r \in ReturnedData :
           r.estimated_tokens < SYSTEM_OVERHEAD
           /\ r.post_trim_tokens = r.estimated_tokens

\* The cumulative costs of the claim at turn t of the call in cost_args
NoTrimAt(t) ==
    WMul(cost_per_turn(cost_args.pre_tokens, cost_args.hit, cost_args.model), t)
WithTrimAt(t) ==
    WAdd(cold_cost(cost_args.post_tokens, cost_args.model),
         WMul(cost_per_turn(cost_args.post_tokens, cost_args.hit,
                            cost_args.model), t - 1))
SavingsTurns == {t \in 1..cost_args.max_turns : WLe(WithTrimAt(t), NoTrimAt(t))}

C3_NoReductionBreaksEvenAtOne ==
    pc = "returned" /\ cost_args.post_tokens = cost_args.pre_tokens
        => cost_result.breakeven = 1

\* C3, amended: with post_tokens = pre_tokens the break-even turn is 1 when
\* the hit rate is 0 or the token count is 0, and max_turns otherwise (the
\* cold rewrite of the unchanged context costs more than one steady turn and
\* equal steady costs never recover it).
C3_NoReductionOneOrSaturated ==
    pc = "returned" /\ cost_args.post_tokens = cost_args.pre_tokens
        => cost_result.breakeven =
               IF cost_args.hit = 0 \/ cost_args.pre_tokens = 0
               THEN 1 ELSE cost_args.max_turns

\* C3 witness: no reduction at hit rate 0 resolved to turn 1, horizon 60
C3_Witness ==
    /\ pc = "returned"
    /\ cost_args.post_tokens = cost_args.pre_tokens
    /\ cost_args.pre_tokens > 0
    /\ cost_args.hit = 0
    /\ cost_args.max_turns = MAX_TURNS
    /\ cost_result.breakeven = 1

PerTurnSaving ==
    WSub(cost_per_turn(cost_args.pre_tokens, cost_args.hit, cost_args.model),
         cost_per_turn(cost_args.post_tokens, cost_args.hit, cost_args.model))
ColdPenalty ==
    WSub(cold_cost(cost_args.post_tokens, cost_args.model),
         cost_per_turn(cost_args.post_tokens, cost_args.hit, cost_args.model))
Scenario4Case ==
    /\ pc = "returned"
    /\ cost_args.max_turns = 60
    /\ cost_args.post_tokens < cost_args.pre_tokens
    /\ WPos(PerTurnSaving)

CurLog == batch[idx].log

\* The seven byte counters, the tool-result count and the two message counts
Counters(a) ==
    <<a.total_bytes, a.tool_result_bytes, a.thinking_bytes,
      a.file_history_bytes, a.conversation_bytes, a.tool_use_bytes,
      a.other_bytes, a.tool_result_count, a.msg_user, a.msg_assistant>>

\* C6: for every split of the consumed log into P and a suffix S that starts
\* with a compaction boundary, the counters after P followed by S are those
\* of folding S alone.
C6_CompactionReset ==
    pc = "fold" =>
        \A c \in 1..pos :
            is_compaction(CurLog[c]) =>
                Counters(acc)
                = Counters(fold_lines(FreshAcc, SubSeq(CurLog, c, pos)))

\* C6 witness: records that fed the byte counters, then a boundary, then
\* further records
C6_Witness ==
    /\ pc = "fold"
    /\ \E c \in 2..(pos - 1) :
           /\ is_compaction(CurLog[c])
           /\ \A j \in (c + 1)..pos : ~is_compaction(CurLog[j])
           /\ LET before == fold_lines(FreshAcc, SubSeq(CurLog, 1, c - 1))
              IN  before.other_bytes > 0 \/ before.tool_result_bytes > 0
           /\ acc.total_bytes > CurLog[c].bytes

\* A record that counts as a user/human/assistant turn
IsTurn(line) ==
    /\ line.json = "object"
    /\ ~is_compaction(line)
    /\ line.type \notin {"file-history-snapshot", "queue-operation"}
    /\ role_of(line) \in {"user", "human", "assistant"}

Turns(ls) == Cardinality({j \in 1..Len(ls) : IsTurn(ls[j])})

\* The records after the last compaction boundary (all of them without one)
LastBoundary(ls) ==
    IF \E j \in 1..Len(ls) : is_compaction(ls[j])
    THEN CHOOSE j \in 1..Len(ls) :
             is_compaction(ls[j]) /\ \A i \in (j + 1)..Len(ls) : ~is_compaction(ls[i])
    ELSE 0
SinceBoundary(ls) == SubSeq(ls, LastBoundary(ls) + 1, Len(ls))

TooSmall(f) == ~f.readable \/ file_size(f.log) < 100
FoldFault(f) == \E j \in 1..Len(f.log) : f.log[j].json = "nonobject"
InfiniteUsage(f) == \E j \in 1..Len(f.log) : f.log[j].usage.inf

Ended == pc \in {"exit", "output", "aborted"}

\* analyze_session of a file none of whose lines is at fault
Faultless(f) == ~FoldFault(f) /\ ~InfiniteUsage(f)

\* C8: a fault while analyzing one session makes only that session not
\* analyzable: when main ends, every session without a fault has been
\* analyzed, a faulty one that came back came back None, and the list of
\* records is that of the batch without the faulty sessions.
C8_FaultIsolated ==
    mode = "standalone" /\ Ended =>
        /\ \A k \in 1..Len(batch) :
               IF Faultless(batch[k])
               THEN k <= Len(returned)
                    /\ returned[k] = analyze_session(batch[k], k)
               ELSE k <= Len(returned) => returned[k].kind = "None"
        /\ LET kept == {k \in 1..Len(batch) :
                           /\ Faultless(batch[k])
                           /\ analyze_session(batch[k], k).kind = "SessionData"
                           /\ analyze_session(batch[k], k).data.estimated_tokens
                              >= MIN_TOKENS}
           IN  {sessions[j].session_id : j \in 1..Len(sessions)} = kept

\* A non-object line read as a malformed one
AsMalformed(line) ==
    IF line.json = "nonobject" THEN [line EXCEPT !.json = "invalid"] ELSE line
AllAsMalformed(f) ==
    [f EXCEPT !.log = [j \in 1..Len(f.log) |-> AsMalformed(f.log[j])]]

\* C9: a line that is no JSON object, invalid JSON or not, adds its byte
\* length to other_bytes and total_bytes only and the fold goes on: the
\* counters are those of the log with each such line counted as malformed,
\* and so is what analyze_session returns.
C9_NonObjectCountedAsOther ==
    /\ pc = "fold" =>
           acc = fold_lines(FreshAcc,
                            SubSeq(AllAsMalformed(batch[idx]).log, 1, pos))
    /\ \A k \in 1..Len(returned) :
           returned[k] = analyze_session(AllAsMalformed(batch[k]), k)

\* Two records that differ at most in the identity taken from the path
SameButPath(r1, r2) ==
    \/ r1.kind # "SessionData" /\ r1 = r2
    \/ /\ r1.kind = "SessionData" /\ r2.kind = "SessionData"
       /\ [r1.data EXCEPT !.session_id = 0, !.project = 0]
          = [r2.data EXCEPT !.session_id = 0, !.project = 0]

\* C10: what analyze_session returns for a file is a function of that file
\* alone, whatever was analyzed before it, and two files with the same log
\* get the same record.
C10_SessionsIndependent ==
    /\ \A k \in 1..Len(returned) :
           returned[k] = analyze_session(batch[k], k)
    /\ \A j, k \in 1..Len(returned) :
           batch[j].log = batch[k].log => SameButPath(returned[j], returned[k])

\* C10 witness: the same log analyzed twice in one batch, after a session
\* that left non-zero counters, both times with a record
C10_Witness ==
    /\ Len(returned) >= 2
    /\ batch[1].log = batch[2].log
    /\ returned[1].kind = "SessionData"
    /\ returned[2].kind = "SessionData"
    /\ returned[1].data.other_bytes > 0

-----------------------------------------------------------------------------

\* The input sessions whose tool-result share puts them in tier tn
InTier(tn) ==
    {j \in 1..Len(sessions) :
        LET p == sessions[j].tool_result_byte_pct
        IN  \/ tn = "tool_heavy" /\ p > 40
            \/ tn = "mixed" /\ p > 15 /\ p <= 40
            \/ tn = "conversational" /\ p <= 15}

\* C11: classify_tiers partitions its input: the result has an entry for each
\* of the three tiers, each count is the number of input sessions of that
\* tier, the counts sum to the number of sessions, and an entry carries the
\* statistic fields exactly when its count is positive; an empty tier has
\* only count = 0 and a label.
C11_ClassifyPartitions ==
    pc = "stats" =>
        /\ DOMAIN tiers = {"tool_heavy", "mixed", "conversational"}
        /\ \A tn \in DOMAIN tiers :
              /\ tiers[tn].count = Cardinality(InTier(tn))
              /\ (tiers[tn].count > 0 <=> StatKeys \subseteq tiers[tn].keys)
              /\ (tiers[tn].count > 0 <=> tiers[tn].keys \cap StatKeys # {})
              /\ tiers[tn].count = 0 => tiers[tn].keys = {"count", "label"}
              /\ tiers[tn].count > 0 =>
                    /\ tiers[tn].mean_breakeven <= 100
                    /\ tiers[tn].median_breakeven <= 100
                    /\ \A j \in InTier(tn) :
                          /\ tiers[tn].min_reduction_pct
                                <= sessions[j].reduction_pct
                          /\ tiers[tn].max_reduction_pct
                                >= sessions[j].reduction_pct
        /\ tiers["tool_heavy"].count + tiers["mixed"].count
              + tiers["conversational"].count = Len(sessions)

\* Two sessions were classified, into two tiers, and the third tier is empty
C11_Witness ==
    /\ pc = "stats"
    /\ Len(sessions) = 2
    /\ tiers["conversational"].count = 1
    /\ tiers["mixed"].count + tiers["tool_heavy"].count = 1
    /\ \E tn \in DOMAIN tiers : tiers[tn].keys = {"count", "label"}

-----------------------------------------------------------------------------

\* The first turn t of 1..60 at which the cumulative cost with trimming,
\* cold_cost(post) + (t - 1) * cost_per_turn(post), is at most the cost
\* without, t * cost_per_turn(pre); 60 if there is none
FirstSavingsTurn(pre, post, model, hit) ==
    LET Saves(t) ==
            WLe(WAdd(cold_cost(post, model),
                     WMul(cost_per_turn(post, hit, model), t - 1)),
                WMul(cost_per_turn(pre, hit, model), t))
        S == {t \in 1..60 : Saves(t)}
    IN  IF S = {} THEN 60 ELSE SetMin(S)

\* The entry of the ground-truth file a loaded record came from
EntryOf(r) == data[r.session_id]

\* C12: the breakeven_turns of every record of load_from_json is that of
\* project_costs on the entry's estimatedTokens and postTrimTokens under the
\* requested pricing and hit rate with max_turns = 60, whatever cost or
\* break-even values the file stores.
C12_JsonBreakevenRecomputed ==
    mode = "json" =>
        \A j \in 1..Len(sessions) :
            LET r == sessions[j]
                s == EntryOf(r)
            IN  /\ r.breakeven_turns
                      = FirstSavingsTurn(s.estimatedTokens, s.postTrimTokens,
                                         pricing, hit_rate)
                /\ r.breakeven_turns
                      = project_costs(s.estimatedTokens, s.postTrimTokens,
                                      pricing, hit_rate, 60).breakeven

\* An entry that stores cost fields and a break-even of 7 was loaded and its
\* record has another break-even
C12_Witness ==
    /\ mode = "json"
    /\ \E j \in 1..Len(sessions) :
          /\ "cacheMissPenalty" \in EntryOf(sessions[j]).keys
          /\ EntryOf(sessions[j]).breakevenTurns = 7
          /\ sessions[j].breakeven_turns = 2
          /\ sessions[j].post_trim_tokens < sessions[j].estimated_tokens

-----------------------------------------------------------------------------

\* What analyze_session returns for the records of a log from its last
\* compaction boundary onward
SuffixAlone(f, path) ==
    analyze_session(File(TRUE, SubSeq(f.log, LastBoundary(f.log), Len(f.log))),
                    path)

\* C13: a compaction boundary resets every counter of the fold, the last
\* API-reported input-token total included, so the estimated_tokens,
\* post_trim_tokens and reduction_pct of a record are those of analyzing the
\* log from its last compaction boundary onward.
C13_EstimateFromLastBoundary ==
    \A k \in 1..Len(returned) :
        returned[k].kind = "SessionData" /\ LastBoundary(batch[k].log) > 0 =>
            LET alone == SuffixAlone(batch[k], k)
            IN  /\ alone.kind = "SessionData"
                /\ returned[k].data.estimated_tokens
                      = alone.data.estimated_tokens
                /\ returned[k].data.post_trim_tokens
                      = alone.data.post_trim_tokens
                /\ returned[k].data.reduction_pct = alone.data.reduction_pct

-----------------------------------------------------------------------------

\* The sum of the six byte categories
Categories(a) ==
    a.tool_result_bytes + a.thinking_bytes + a.file_history_bytes
    + a.conversation_bytes + a.tool_use_bytes + a.other_bytes

\* C14: after every record of the fold total_bytes is at least the sum of
\* the six categories, and a record that is no compaction boundary raises
\* that sum by exactly its own byte length, also when its re-serialized
\* blocks are longer than the raw line.
C14_EveryByteInOneCategory ==
    pc = "fold" /\ pos > 0 =>
        LET line   == CurLog[pos]
            before == fold_lines(FreshAcc, SubSeq(CurLog, 1, pos - 1))
        IN  /\ acc.total_bytes >= Categories(acc)
            /\ line.json # "blank" /\ ~is_compaction(line) =>
                  Categories(acc) = Categories(before) + line.bytes

-----------------------------------------------------------------------------

\* The counters after the first j records of a log
After(ls, j) == fold_lines(FreshAcc, SubSeq(ls, 1, j))

\* The records that reported an input-token total differing from the one
\* recorded before them
Checkpoints(ls) ==
    {j \in 1..Len(ls) :
        /\ role_of(ls[j]) = "assistant" /\ ls[j].usage.has
        /\ After(ls, j).last_api_input_tokens
              # After(ls, j - 1).last_api_input_tokens}

\* The estimate as claimed: the last recorded total plus a quarter of the
\* characters counted since it was recorded, or the heuristic
AnchorAndDelta(ls) ==
    LET chars_now == After(ls, Len(ls)).content_chars
    IN  IF Checkpoints(ls) = {}
        THEN chars_now \div 4 + 20000
        ELSE LET c == CHOOSE j \in Checkpoints(ls) :
                          \A i \in Checkpoints(ls) : i <= j
                 L == api_input_of(ls[c].usage).val
                 chars_at_checkpoint == After(ls, c - 1).content_chars
             IN  L + (chars_now - chars_at_checkpoint) \div 4

\* C15: the estimated_tokens of a record is the last reported input-token
\* total that differed from the one before, plus a quarter (integer
\* division) of the characters counted since the character counter's value
\* at that report, or a quarter of the characters plus 20000 when no total
\* was reported; it is never below that total.
C15_AnchorAndDelta ==
    \A k \in 1..Len(returned) :
        returned[k].kind = "SessionData" =>
            LET ls == batch[k].log
            IN  /\ returned[k].data.estimated_tokens = AnchorAndDelta(ls)
                /\ \A j \in Checkpoints(ls) :
                      (\A i \in Checkpoints(ls) : i <= j) =>
                          returned[k].data.estimated_tokens
                             >= api_input_of(ls[j].usage).val

-----------------------------------------------------------------------------

\* Twenty times the removable quantity: the weights 1, 1, 0.7, 35 and 0.3 in
\* twentieths
Removable20(a) ==
    20 * a.file_history_bytes + 20 * a.thinking_bytes
    + 14 * a.tool_result_bytes - 700 * a.tool_result_count
    + 6 * a.tool_use_bytes

\* Twenty times total_bytes times clamp(removable / total_bytes, 0, 0.95)
Ratio20(a) ==
    IF Removable20(a) <= 0 THEN 0
    ELSE IF Removable20(a) >= 19 * a.total_bytes THEN 19 * a.total_bytes
    ELSE Removable20(a)

\* min(est, round((est - 20000) * (1 - ratio)) + 20000), est itself when
\* total_bytes = 0; round is Python's on the double of the product, which
\* decides a product exactly halfway between two integers
SpecifiedPostTrim(a, est) ==
    IF a.total_bytes = 0 THEN est
    ELSE LET den == 20 * a.total_bytes
             num == (est - 20000) * (den - Ratio20(a))
             p   == IF est > 20000 /\ 2 * (num % den) = den
                    THEN fl_kept(a, est - 20000) + 20000
                    ELSE RoundDiv(num, den) + 20000
         IN  IF p < est THEN p ELSE est

\* C16: the post_trim_tokens of the record is
\* min(estimated_tokens, round((estimated_tokens - 20000) * (1 - ratio))
\* + 20000) with ratio = clamp(removable / total_bytes, 0, 0.95), for
\* estimates below 20000 too, and estimated_tokens when total_bytes = 0.
C16_PostTrimFormula ==
    \A k \in 1..Len(returned) :
        returned[k].kind = "SessionData" =>
            LET a == IF mode = "trim" THEN acc
                     ELSE fold_lines(FreshAcc, batch[k].log)
            IN  returned[k].data.post_trim_tokens
                   = SpecifiedPostTrim(a, returned[k].data.estimated_tokens)

\* An estimate below the overhead was trimmed with a positive ratio
C16_Witness ==
    /\ mode = "trim"
    /\ Len(returned) = 1
    /\ returned[1].kind = "SessionData"
    /\ returned[1].data.estimated_tokens < 20000
    /\ acc.total_bytes > 0
    /\ Ratio20(acc) > 0
    /\ returned[1].data.post_trim_tokens = returned[1].data.estimated_tokens

-----------------------------------------------------------------------------

\* The counters a returned record was computed from
CountersOf(k) ==
    IF mode = "trim" THEN acc ELSE fold_lines(FreshAcc, batch[k].log)

\* C17: when the weighted removable quantity is <= 0 the ratio is 0,
\* post_trim_tokens = estimated_tokens and reduction_pct = 0; a negative
\* removable neither raises post_trim_tokens above estimated_tokens nor makes
\* reduction_pct negative.
C17_SaturationAtZero ==
    \A k \in 1..Len(returned) :
        returned[k].kind = "SessionData" =>
            LET r == returned[k].data
            IN  /\ r.post_trim_tokens <= r.estimated_tokens
                /\ r.reduction_pct >= 0
                /\ Removable20(CountersOf(k)) <= 0 =>
                      /\ ratio_num(CountersOf(k)) = 0
                      /\ r.post_trim_tokens = r.estimated_tokens
                      /\ r.reduction_pct = 0

\* Twenty tool results whose credit outweighs their bytes: the removable
\* quantity is negative, the estimate is above the overhead
C17_Witness ==
    /\ mode = "trim"
    /\ Len(returned) = 1
    /\ returned[1].kind = "SessionData"
    /\ acc.tool_result_count = 20
    /\ acc.tool_use_bytes > 0
    /\ Removable20(acc) < 0
    /\ returned[1].data.estimated_tokens > 20000
    /\ returned[1].data.post_trim_tokens = returned[1].data.estimated_tokens

-----------------------------------------------------------------------------

\* round(100 * tool_result_bytes / total_bytes), 0 without bytes
ShareOfBreakdown(r) ==
    IF r.total_bytes > 0
    THEN RoundDiv(100 * r.tool_result_bytes, r.total_bytes) ELSE 0

\* The tier a share of tool-result bytes stands for
TierOfShare(p) ==
    IF p > 40 THEN "tool_heavy" ELSE IF p > 15 THEN "mixed"
    ELSE "conversational"

\* C18: every record handed to the tier classifier, from either producer,
\* has tool_result_byte_pct = round(100 * tool_result_bytes / total_bytes)
\* when total_bytes > 0 and 0 otherwise, so it lies in [0, 100] and the
\* record's tier agrees with its own byte breakdown.
C18_PctFromBreakdown ==
    \A j \in 1..Len(sessions) :
        LET r == sessions[j]
        IN  /\ r.tool_result_byte_pct = ShareOfBreakdown(r)
            /\ 0 <= r.tool_result_byte_pct /\ r.tool_result_byte_pct <= 100
            /\ tier(r.tool_result_byte_pct) = TierOfShare(ShareOfBreakdown(r))

-----------------------------------------------------------------------------

\* C19: every record of load_from_json carries the derived cost fields of
\* the requested pricing and hit rate: breakeven_turns of the projection,
\* cache_miss_penalty = cold_cost(post) - cost_per_turn(pre) and
\* savings_per_turn = cost_per_turn(pre) - cost_per_turn(post), whatever the
\* file stores.
C19_JsonCostFieldsRecomputed ==
    mode = "json" =>
        \A j \in 1..Len(sessions) :
            LET r    == sessions[j]
                pre  == r.estimated_tokens
                post == r.post_trim_tokens
            IN  /\ r.breakeven_turns
                      = FirstSavingsTurn(pre, post, pricing, hit_rate)
                /\ r.cache_miss_penalty
                      = WSub(cold_cost(post, pricing),
                             cost_per_turn(pre, hit_rate, pricing))
                /\ r.savings_per_turn
                      = WSub(cost_per_turn(pre, hit_rate, pricing),
                             cost_per_turn(post, hit_rate, pricing))

-----------------------------------------------------------------------------

\* C20: break-even is stable: once with_trim(t) <= no_trim(t) holds at a turn
\* of the projection it holds at every later turn up to max_turns, and unless
\* the break-even was reported by saturation the savings region is exactly
\* the turns at or after the reported break-even.
C20_BreakevenStable ==
    pc = "returned" =>
        LET mask == savings_mask(cost_result)
            n    == Len(mask)
        IN  /\ \A t \in 1..n : \A u \in (t + 1)..n : mask[t] => mask[u]
            /\ (\E t \in 1..n : mask[t]) =>
                   \A t \in 1..n : mask[t] <=> t >= cost_result.breakeven

-----------------------------------------------------------------------------

\* round(0.05 * content_tok) as Python computes it: the exact twentieth
\* rounded, the double of the product deciding an exact half
FloorOfCap(content_tok) ==
    IF content_tok % 20 = 10
    THEN RoundScaled(FMul(FDiv(FOfInt(1), 5, 2), FOfInt(content_tok)), 1)
    ELSE RoundDiv(content_tok, 20)

\* min(estimated_tokens, 20000 + round(0.05 * max(0, estimated_tokens -
\* 20000)))
LeastPostTrim(est) ==
    LET content == IF est > 20000 THEN est - 20000 ELSE 0
        least   == 20000 + FloorOfCap(content)
    IN  IF est < least THEN est ELSE least

\* C21: the 0.95 cap bounds every record the analyzer produces: trimming
\* removes neither the fixed system overhead nor more than 95% of the content
\* tokens: post_trim_tokens >= min(estimated_tokens, 20000 + round(0.05 *
\* max(0, estimated_tokens - 20000))) and reduction_pct <= 95.
C21_CapBoundsRecord ==
    \A k \in 1..Len(returned) :
        returned[k].kind = "SessionData" =>
            LET r == returned[k].data
            IN  /\ r.post_trim_tokens >= LeastPostTrim(r.estimated_tokens)
                /\ r.reduction_pct <= 950

\* The cap was reached on an estimate above the overhead: the record keeps
\* exactly the overhead and a twentieth of the content
C21_Witness ==
    /\ mode = "trim"
    /\ Len(returned) = 1
    /\ returned[1].kind = "SessionData"
    /\ returned[1].data.estimated_tokens = 20000 + 4003
    /\ Removable20(acc) > 19 * acc.total_bytes
    /\ returned[1].data.post_trim_tokens = 20000 + 200
    /\ returned[1].data.reduction_pct > 0

====
